---- MODULE Spec2Model ----
(***************************************************************************)
(* State machine of the App component of frontend/src/App.js: the React    *)
(* state hooks are the variables, every handler and every continuation of  *)
(* an awaited fetch is an action.  The backend, the geolocation API and    *)
(* the user are the environment: their answers and inputs are drawn from   *)
(* small sets.                                                             *)
(*                                                                         *)
(* Text is a sequence of characters, so that trim() and parseFloat() are   *)
(* computed; the fixed texts of the bot are one-element sequences.  The    *)
(* id and timestamp fields of a message (Date.now(), toLocaleTimeString)   *)
(* are not modelled.  Of the twelve fields of the newEvent form the four   *)
(* in FormFields are modelled; the other eight are plain strings handled   *)
(* exactly as title is.                                                    *)
(***************************************************************************)
EXTENDS Integers, Sequences, FiniteSets, TLC

(* ------------------------------ bounds -------------------------------- *)
\* user operations (clicks, key strokes, selections) in one run
MaxUserOps == 4
\* categories the user picks preferences from, of the ten of the code
NumCategories == 2

(* ----------------------------- constants ------------------------------ *)
categories ==
  <<"Music", "Food & Drink", "Arts & Culture", "Sports & Fitness",
    "Business & Networking", "Health & Wellness", "Technology",
    "Education", "Community", "Entertainment">>

\* the categories the model's user picks from
PrefCategories == {categories[i] : i \in 1..NumCategories}

WelcomeText ==
  <<"Hi! I'm your hyperlocal events assistant. I can help you discover amazing local events based on your location and interests. What kind of events are you looking for?">>

ApologyText ==
  <<"I'm sorry, I'm having trouble connecting right now. Please try again in a moment.">>

\* 40.7589, -73.9851 in units of 1e-4 degree
DefaultLocation == [latitude |-> 407589, longitude |-> -739851]

InitialNewEvent ==
  [title |-> "", price |-> "Free", latitude |-> <<>>, longitude |-> <<>>]

Tabs == {"chat", "events", "admin"}

\* state that no request or reply has set yet
None == <<>>

(* ------------------------- environment inputs ------------------------- *)
\* what the user types into the chat input
Inputs == {<<>>, <<" ">>, <<" ", "a", " ">>}

\* what the geolocation API reports
Positions == {[latitude |-> 515074, longitude |-> -1278]}

\* what the user types into the latitude / longitude fields
FloatInputs == {<<>>, <<"4", "0">>, <<" ", "-", "7", ".", "5", "x">>}

FormFields == {"title", "price", "latitude", "longitude"}

FieldInputs(f) ==
  CASE f = "title" -> {"", "Jazz"}
    [] f = "price" -> {"Free", "$10"}
    [] OTHER -> FloatInputs

\* bodies of GET /api/events: an array of events, or a JSON object (the
\* error document a backend sends with a non-OK status)
EventLists == {<<"e1">>, <<"e1", "e2">>}
ArrayBody(l) == [isArray |-> TRUE, items |-> l]
ObjectBody == [isArray |-> FALSE, items |-> <<>>]

\* a settled fetch: rejected, or a response with a status and a body that
\* response.json() parses (parsable) into data or throws on
Rejected(filler) ==
  [rejected |-> TRUE, ok |-> FALSE, parsable |-> FALSE, data |-> filler]
Response(ok, parsable, data) ==
  [rejected |-> FALSE, ok |-> ok, parsable |-> parsable, data |-> data]

GetOutcomes ==
  {Rejected(ObjectBody), Response(TRUE, FALSE, ObjectBody),
   Response(FALSE, TRUE, ObjectBody)}
    \cup {Response(TRUE, TRUE, ArrayBody(l)) : l \in EventLists}

\* data of POST /api/chat: null, or an object with response and, possibly,
\* recommended_events
RecLists == {<<"e1">>, <<"e2">>}
ChatData(hasRecs, recs) ==
  [isNull |-> FALSE, response |-> <<"reply">>, hasRecs |-> hasRecs, recs |-> recs]
NullData ==
  [isNull |-> TRUE, response |-> <<>>, hasRecs |-> FALSE, recs |-> <<>>]

ChatOutcomes ==
  {Rejected(NullData), Response(FALSE, TRUE, NullData),
   Response(TRUE, FALSE, NullData),
   Response(TRUE, TRUE, NullData), Response(TRUE, TRUE, ChatData(FALSE, <<>>))}
    \cup {Response(TRUE, TRUE, ChatData(TRUE, r)) : r \in RecLists}

PostOutcomes ==
  {Rejected(None), Response(TRUE, TRUE, None), Response(FALSE, TRUE, None)}

(* --------------------------- pure functions --------------------------- *)
Whitespace == {" "}
Digits == {"0", "1", "2", "3", "4", "5", "6", "7", "8", "9"}

RECURSIVE DropWhile(_, _)
DropWhile(s, S) ==
  IF s # <<>> /\ Head(s) \in S THEN DropWhile(Tail(s), S) ELSE s

RECURSIVE TakeWhile(_, _)
TakeWhile(s, S) ==
  IF s # <<>> /\ Head(s) \in S THEN <<Head(s)>> \o TakeWhile(Tail(s), S) ELSE <<>>

RECURSIVE Reverse(_)
Reverse(s) == IF s = <<>> THEN <<>> ELSE Reverse(Tail(s)) \o <<Head(s)>>

\* String.prototype.trim
trim(s) == Reverse(DropWhile(Reverse(DropWhile(s, Whitespace)), Whitespace))

\* parseFloat: leading white space is skipped, then the longest prefix that
\* is a decimal literal (sign, digits, fraction) is the value; NaN when that
\* prefix has no digit.  Exponents and "Infinity" are outside the inputs.
NaN == [isNaN |-> TRUE, text |-> <<>>]
parseFloat(s) ==
  LET s1 == DropWhile(s, Whitespace)
      sign == IF s1 # <<>> /\ Head(s1) \in {"-", "+"} THEN <<Head(s1)>> ELSE <<>>
      s2 == SubSeq(s1, Len(sign) + 1, Len(s1))
      int == TakeWhile(s2, Digits)
      s3 == SubSeq(s2, Len(int) + 1, Len(s2))
      frac == IF s3 # <<>> /\ Head(s3) = "." THEN TakeWhile(Tail(s3), Digits) ELSE <<>>
  IN  IF int = <<>> /\ frac = <<>> THEN NaN
      ELSE [isNaN |-> FALSE,
            text |-> sign \o int \o (IF frac = <<>> THEN <<>> ELSE <<".">> \o frac)]

\* JSON.stringify of a number: NaN is written as null
JsonNumber(v) ==
  IF v.isNaN THEN [type |-> "null", text |-> <<>>]
  ELSE [type |-> "number", text |-> v.text]

\* JSON.stringify of the chat request object: keys whose value is undefined
\* (userLocation?.latitude with userLocation null) are left out
ChatBody(message, location, prefs) ==
  IF location = None
    THEN [message |-> message, preferences |-> prefs]
    ELSE [message |-> message, latitude |-> location[1].latitude,
          longitude |-> location[1].longitude, preferences |-> prefs]

\* JSON.stringify of eventData
EventBody(form) ==
  [title |-> form.title, price |-> form.price,
   latitude |-> JsonNumber(parseFloat(form.latitude)),
   longitude |-> JsonNumber(parseFloat(form.longitude))]

Includes(s, x) == \E i \in 1..Len(s) : s[i] = x

\* Array.prototype.filter(p => p !== x)
Without(s, x) == SelectSeq(s, LAMBDA p : p # x)

RemoveAt(s, i) == SubSeq(s, 1, i - 1) \o SubSeq(s, i + 1, Len(s))

(* ------------------------------- state -------------------------------- *)
VARIABLES
  mounted,             \* the mount effect has run
  messages,            \* useState([])
  inputMessage,        \* useState('')
  userLocation,        \* useState(null): None, or <<location>>
  events,              \* useState([])
  recommendedEvents,   \* useState([])
  isLoading,           \* useState(false)
  activeTab,           \* useState('chat')
  preferences,         \* useState([])
  renderedPreferences, \* the preferences value the handlers of the last render closed over
  showAddEvent,        \* useState(false)
  newEvent,            \* useState({...})
  geoPending,          \* getCurrentPosition has been called and has not called back
  chatReqs,            \* POST /api/chat requests awaited by handleSendMessage
  postReqs,            \* POST /api/events requests awaited by handleAddEvent
  getReqs,             \* GET /api/events requests awaited by fetchEvents
  chatPosts,           \* number of POST /api/chat requests issued
  eventPosts,          \* number of POST /api/events requests issued
  eventGets,           \* number of GET /api/events requests issued
  mounts,              \* number of runs of the mount effect
  addCalls,            \* number of handleAddEvent invocations
  okAdds,              \* number of POST /api/events responses with an OK status
  userOps,             \* number of user operations handled so far
  getLog,              \* the GET /api/events responses whose body was parsed, in order of completion
  turnReturned         \* None, or <<recommended events the last completed chat turn returned>>

uiVars ==
  <<inputMessage, activeTab, showAddEvent, newEvent>>
prefVars == <<preferences, renderedPreferences>>
chatVars == <<messages, recommendedEvents, isLoading, chatReqs, chatPosts, turnReturned>>
geoVars == <<userLocation, geoPending>>
eventVars == <<events, getReqs, eventGets>>
addVars == <<postReqs, eventPosts, addCalls, okAdds>>
vars ==
  <<mounted, mounts, userOps, getLog, uiVars, prefVars, chatVars, geoVars,
    eventVars, addVars>>

Message(type, content) == [type |-> type, content |-> content]

\* a request in flight: what was sent, and the settled fetch once the
\* backend has answered (None before)
Request(id, body, closure) ==
  [id |-> id, body |-> body, closure |-> closure, outcome |-> None]

\* React has re-rendered since the last preference update, so the handlers
\* the user reaches close over the current state
Committed == renderedPreferences = preferences

Init ==
  /\ mounted = FALSE
  /\ messages = <<>>
  /\ inputMessage = <<>>
  /\ userLocation = None
  /\ events = ArrayBody(<<>>)
  /\ recommendedEvents = <<>>
  /\ isLoading = FALSE
  /\ activeTab = "chat"
  /\ preferences = <<>>
  /\ renderedPreferences = <<>>
  /\ showAddEvent = FALSE
  /\ newEvent = InitialNewEvent
  /\ geoPending = FALSE
  /\ chatReqs = <<>>
  /\ postReqs = <<>>
  /\ getReqs = <<>>
  /\ chatPosts = 0
  /\ eventPosts = 0
  /\ eventGets = 0
  /\ mounts = 0
  /\ addCalls = 0
  /\ okAdds = 0
  /\ userOps = 0
  /\ getLog = <<>>
  /\ turnReturned = None

(* ------------------------ fragments of the code ----------------------- *)
\* handleSendMessage: !inputMessage.trim()
IsBlank(s) == trim(s) = <<>>

\* handleSendMessage: the try block reaches its end (no throw): fetch
\* resolved, response.ok, response.json() parsed, data.response readable
ChatSucceeded(o) == ~o.rejected /\ o.ok /\ o.parsable /\ ~o.data.isNull

\* data.recommended_events || []
RecommendedOf(data) == IF data.hasRecs THEN data.recs ELSE <<>>

\* MessagesAfterReply with the catch block appending nothing
MessagesAfterReplySilent(prev, o) ==
  IF ChatSucceeded(o) THEN Append(prev, Message("bot", o.data.response))
  ELSE prev

\* MessagesAfterReply with the catch block calling setMessages([m])
MessagesAfterReplyReset(prev, o) ==
  IF ChatSucceeded(o) THEN Append(prev, Message("bot", o.data.response))
  ELSE <<Message("bot", ApologyText)>>

\* handleSendMessage after the await: setMessages(prev => [...prev, m])
\* with the bot message of the try block or the error message of the catch
MessagesAfterReply(prev, o) ==
  IF ChatSucceeded(o) THEN Append(prev, Message("bot", o.data.response))
  ELSE Append(prev, Message("bot", ApologyText))

\* RecommendedAfterReply with the catch block calling
\* setRecommendedEvents([])
RecommendedAfterReplyCleared(prev, o) ==
  IF ChatSucceeded(o) THEN RecommendedOf(o.data) ELSE <<>>

\* handleSendMessage after the await: setRecommendedEvents, in the try
\* block only
RecommendedAfterReply(prev, o) ==
  IF ChatSucceeded(o) THEN RecommendedOf(o.data) ELSE prev

\* EventsAfterFetch that keeps the events of the first response applied
EventsAfterFetchOnce(prev, o) ==
  IF ~o.rejected /\ o.parsable /\ prev = ArrayBody(<<>>) THEN o.data ELSE prev

\* fetchEvents after the await: setEvents(data) unless fetch or
\* response.json() threw; the status is not looked at
EventsAfterFetch(prev, o) ==
  IF ~o.rejected /\ o.parsable THEN o.data ELSE prev

\* AddEventSucceeded without the look at response.ok
AddEventSucceededAnyStatus(o) == ~o.rejected

\* AddEventSucceeded with the success branch moved to a finally block
AddEventSucceededAlways(o) == TRUE

\* handleAddEvent after the await: if (response.ok)
AddEventSucceeded(o) == ~o.rejected /\ o.ok

\* addPreference: seen is the preferences of the render the handler
\* belongs to, current the state it may replace
AfterAddPreference(seen, current, category) ==
  IF ~Includes(seen, category) THEN Append(seen, category) ELSE current

\* removePreference
AfterRemovePreference(seen, category) == Without(seen, category)

\* ResetNewEvent with price reset to '' like the other fields
ResetNewEventEmptyPrice ==
  [title |-> "", price |-> "", latitude |-> <<>>, longitude |-> <<>>]

\* handleAddEvent: the object literal passed to setNewEvent on success
ResetNewEvent ==
  [title |-> "", price |-> "Free", latitude |-> <<>>, longitude |-> <<>>]

\* ChatControlsEnabled without the disabled attributes
ChatControlsAlwaysEnabled == TRUE

\* Input disabled={isLoading}, Button disabled={isLoading}
ChatControlsEnabled == ~isLoading

\* fetchEvents up to its first await: the GET is issued
IssueGet ==
  /\ eventGets' = eventGets + 1
  /\ getReqs' = Append(getReqs, Request(eventGets + 1, None, None))

\* a user operation is handled: the model follows a run for MaxUserOps of
\* them
UserOp ==
  /\ mounted
  /\ userOps < MaxUserOps
  /\ userOps' = userOps + 1

(* ------------------------------ actions ------------------------------- *)
\* useEffect(() => {...}, []): requestLocation(), fetchEvents(), welcome
Mount ==
  /\ ~mounted
  /\ mounted' = TRUE
  /\ mounts' = mounts + 1
  /\ \E hasGeolocation \in BOOLEAN :
       IF hasGeolocation
         THEN geoPending' = TRUE /\ userLocation' = userLocation
         ELSE geoPending' = geoPending /\ userLocation' = <<DefaultLocation>>
  /\ IssueGet
  /\ messages' = <<Message("bot", WelcomeText)>>
  /\ UNCHANGED <<userOps, getLog, events, uiVars, prefVars, addVars, recommendedEvents,
                 isLoading, chatReqs, chatPosts, turnReturned>>

\* the success callback of getCurrentPosition
GeoSuccess(position) ==
  /\ geoPending
  /\ geoPending' = FALSE
  /\ userLocation' = <<[latitude |-> position.latitude,
                        longitude |-> position.longitude]>>
  /\ UNCHANGED <<mounted, mounts, getLog, userOps, uiVars, prefVars, chatVars, eventVars, addVars>>

\* the error callback of getCurrentPosition
GeoError ==
  /\ geoPending
  /\ geoPending' = FALSE
  /\ userLocation' = <<DefaultLocation>>
  /\ UNCHANGED <<mounted, mounts, getLog, userOps, uiVars, prefVars, chatVars, eventVars, addVars>>

\* the backend (or the network) settles a request in flight
ChatAnswer(i, o) ==
  /\ chatReqs[i].outcome = None
  /\ chatReqs' = [chatReqs EXCEPT ![i].outcome = <<o>>]
  /\ UNCHANGED <<mounted, mounts, getLog, userOps, uiVars, prefVars, geoVars, eventVars, addVars,
                 messages, recommendedEvents, isLoading, chatPosts, turnReturned>>

PostAnswer(i, o) ==
  /\ postReqs[i].outcome = None
  /\ postReqs' = [postReqs EXCEPT ![i].outcome = <<o>>]
  /\ UNCHANGED <<mounted, mounts, getLog, userOps, uiVars, prefVars, geoVars, eventVars, chatVars,
                 eventPosts, addCalls, okAdds>>

GetAnswer(i, o) ==
  /\ getReqs[i].outcome = None
  /\ getReqs' = [getReqs EXCEPT ![i].outcome = <<o>>]
  /\ UNCHANGED <<mounted, mounts, getLog, userOps, uiVars, prefVars, geoVars, chatVars, addVars,
                 events, eventGets>>

\* fetchEvents from its await on
FetchEventsResume(i) ==
  /\ getReqs[i].outcome # None
  /\ events' = EventsAfterFetch(events, getReqs[i].outcome[1])
  /\ getLog' = LET o == getReqs[i].outcome[1]
               IN  IF ~o.rejected /\ o.parsable
                     THEN Append(getLog, [id |-> getReqs[i].id, body |-> o.data])
                     ELSE getLog
  /\ getReqs' = RemoveAt(getReqs, i)
  /\ UNCHANGED <<mounted, mounts, userOps, uiVars, prefVars, geoVars, chatVars, addVars,
                 eventGets>>

\* handleSendMessage up to its await (Send button, or Enter through
\* handleKeyPress; both are disabled while isLoading)
handleSendMessage ==
  /\ UserOp /\ Committed
  /\ activeTab = "chat"
  /\ ChatControlsEnabled
  /\ IF IsBlank(inputMessage)
       THEN UNCHANGED <<messages, inputMessage, isLoading, chatReqs, chatPosts>>
       ELSE LET userMessage == Message("user", inputMessage)
            IN  /\ messages' = Append(messages, userMessage)
                /\ inputMessage' = <<>>
                /\ isLoading' = TRUE
                /\ chatPosts' = chatPosts + 1
                /\ chatReqs' = Append(chatReqs,
                     Request(chatPosts + 1,
                             ChatBody(inputMessage, userLocation, preferences),
                             [base |-> messages, userMessage |-> userMessage,
                              preferences |-> preferences]))
  /\ UNCHANGED <<mounted, mounts, getLog, activeTab, showAddEvent, newEvent, prefVars,
                 geoVars, eventVars, addVars, recommendedEvents, turnReturned>>

\* handleSendMessage from its await on: try, catch and finally
ChatResume(i) ==
  /\ chatReqs[i].outcome # None
  /\ LET o == chatReqs[i].outcome[1]
     IN  /\ messages' = MessagesAfterReply(messages, o)
         /\ recommendedEvents' = RecommendedAfterReply(recommendedEvents, o)
         /\ turnReturned' = <<IF ChatSucceeded(o) THEN RecommendedOf(o.data) ELSE <<>>>>
  /\ isLoading' = FALSE
  /\ chatReqs' = RemoveAt(chatReqs, i)
  /\ UNCHANGED <<mounted, mounts, getLog, userOps, uiVars, prefVars, geoVars, eventVars, addVars,
                 chatPosts>>

\* handleAddEvent up to its await
handleAddEvent ==
  /\ UserOp /\ Committed
  /\ activeTab = "admin" /\ showAddEvent
  /\ addCalls' = addCalls + 1
  /\ eventPosts' = eventPosts + 1
  /\ postReqs' = Append(postReqs, Request(eventPosts + 1, EventBody(newEvent), newEvent))
  /\ UNCHANGED <<mounted, mounts, getLog, uiVars, prefVars, geoVars, eventVars, chatVars,
                 okAdds>>

\* handleAddEvent from its await on
AddEventResume(i) ==
  /\ postReqs[i].outcome # None
  /\ LET o == postReqs[i].outcome[1]
     IN  /\ okAdds' = okAdds + (IF ~o.rejected /\ o.ok THEN 1 ELSE 0)
         /\ IF AddEventSucceeded(o)
              THEN /\ showAddEvent' = FALSE
                   /\ newEvent' = ResetNewEvent
                   /\ IssueGet
              ELSE UNCHANGED <<showAddEvent, newEvent, getReqs, eventGets>>
  /\ postReqs' = RemoveAt(postReqs, i)
  /\ UNCHANGED <<mounted, mounts, getLog, userOps, inputMessage, activeTab, prefVars, geoVars,
                 chatVars, events, eventPosts, addCalls>>

\* Select onValueChange={addPreference}
addPreference(category) ==
  /\ UserOp
  /\ activeTab = "chat"
  /\ preferences' = AfterAddPreference(renderedPreferences, preferences, category)
  /\ UNCHANGED <<mounted, mounts, getLog, uiVars, renderedPreferences, geoVars, chatVars,
                 eventVars, addVars>>

\* Badge onClick={() => removePreference(pref)}
removePreference(category) ==
  /\ UserOp
  /\ activeTab = "chat"
  /\ preferences' = AfterRemovePreference(renderedPreferences, category)
  /\ UNCHANGED <<mounted, mounts, getLog, uiVars, renderedPreferences, geoVars, chatVars,
                 eventVars, addVars>>

\* React re-renders App after a preference update: the handlers are
\* created anew and close over the current preferences
Render ==
  /\ ~Committed
  /\ renderedPreferences' = preferences
  /\ UNCHANGED <<mounted, mounts, getLog, userOps, uiVars, preferences, geoVars,
                 chatVars, eventVars, addVars>>

\* Input onChange={(e) => setInputMessage(e.target.value)}
SetInputMessage(value) ==
  /\ UserOp /\ Committed
  /\ activeTab = "chat"
  /\ ChatControlsEnabled
  /\ value # inputMessage
  /\ inputMessage' = value
  /\ UNCHANGED <<mounted, mounts, getLog, activeTab, showAddEvent, newEvent, prefVars,
                 geoVars, chatVars, eventVars, addVars>>

\* the three nav buttons
SetActiveTab(tab) ==
  /\ UserOp /\ Committed
  /\ tab # activeTab
  /\ activeTab' = tab
  /\ UNCHANGED <<mounted, mounts, getLog, inputMessage, showAddEvent, newEvent, prefVars,
                 geoVars, chatVars, eventVars, addVars>>

\* Dialog onOpenChange={setShowAddEvent}
SetShowAddEvent(open) ==
  /\ UserOp /\ Committed
  /\ activeTab = "admin"
  /\ open # showAddEvent
  /\ showAddEvent' = open
  /\ UNCHANGED <<mounted, mounts, getLog, inputMessage, activeTab, newEvent, prefVars,
                 geoVars, chatVars, eventVars, addVars>>

\* the onChange of a form field: setNewEvent({...newEvent, field: value})
SetNewEventField(field, value) ==
  /\ UserOp /\ Committed
  /\ activeTab = "admin" /\ showAddEvent
  /\ newEvent[field] # value
  /\ newEvent' = [newEvent EXCEPT ![field] = value]
  /\ UNCHANGED <<mounted, mounts, getLog, inputMessage, activeTab, showAddEvent, prefVars,
                 geoVars, chatVars, eventVars, addVars>>

Next ==
  \/ Mount
  \/ \E position \in Positions : GeoSuccess(position)
  \/ GeoError
  \/ \E i \in 1..Len(chatReqs) : \E o \in ChatOutcomes : ChatAnswer(i, o)
  \/ \E i \in 1..Len(postReqs) : \E o \in PostOutcomes : PostAnswer(i, o)
  \/ \E i \in 1..Len(getReqs) : \E o \in GetOutcomes : GetAnswer(i, o)
  \/ \E i \in 1..Len(getReqs) : FetchEventsResume(i)
  \/ handleSendMessage
  \/ \E i \in 1..Len(chatReqs) : ChatResume(i)
  \/ handleAddEvent
  \/ \E i \in 1..Len(postReqs) : AddEventResume(i)
  \/ \E category \in PrefCategories : addPreference(category)
  \/ \E category \in PrefCategories : removePreference(category)
  \/ Render
  \/ \E value \in Inputs : SetInputMessage(value)
  \/ \E tab \in Tabs : SetActiveTab(tab)
  \/ \E open \in BOOLEAN : SetShowAddEvent(open)
  \/ \E field \in FormFields : \E value \in FieldInputs(field) :
       SetNewEventField(field, value)

Spec == Init /\ [][Next]_vars

(* ------------------------------- claims ------------------------------- *)
IsPrefix(s, t) == Len(s) <= Len(t) /\ SubSeq(t, 1, Len(s)) = s

\* the step in which the continuation of the i-th awaited request runs
ChatSettles(i) == chatReqs[i].outcome # None /\ chatReqs' = RemoveAt(chatReqs, i)
PostSettles(i) == postReqs[i].outcome # None /\ postReqs' = RemoveAt(postReqs, i)
GetSettles(i) == getReqs[i].outcome # None /\ getReqs' = RemoveAt(getReqs, i)

\* the failures the claims name: fetch rejects, the status is not OK, the
\* body cannot be parsed
ChatRequestFailed(o) == o.rejected \/ ~o.ok \/ ~o.parsable
StatusFailed(o) == o.rejected \/ ~o.ok

\* C1: when the POST /api/chat of a send has settled, messages is the list
\* of the moment of the send followed by exactly two entries: the user
\* message with the entered text, then one bot message.
C1_SendAppendsUserThenBot ==
  [][\A i \in 1..Len(chatReqs) :
       ChatSettles(i) =>
         LET base == chatReqs[i].closure.base
             n == Len(base)
         IN  /\ Len(messages') = n + 2
             /\ SubSeq(messages', 1, n) = base
             /\ messages'[n + 1] = Message("user", chatReqs[i].body.message)
             /\ messages'[n + 2].type = "bot"]_vars

C1_Witness ==
  /\ chatPosts = 2 /\ chatReqs = <<>>
  /\ Len(messages) = 5
  /\ messages[4].type = "user" /\ messages[5].type = "bot"

\* C2: when a chat request fails, the continuation appends exactly one bot
\* message with the apology text, leaves recommendedEvents, events,
\* preferences and userLocation as they were, and runs to its end
\* (isLoading is false again: nothing escaped the try/catch/finally).
C2_ChatFailureAppendsApology ==
  [][\A i \in 1..Len(chatReqs) :
       (ChatSettles(i) /\ ChatRequestFailed(chatReqs[i].outcome[1])) =>
         /\ messages' = Append(messages, Message("bot", ApologyText))
         /\ UNCHANGED <<recommendedEvents, events, preferences, userLocation>>
         /\ isLoading' = FALSE]_vars

C2_Witness ==
  /\ chatPosts = 2 /\ chatReqs = <<>>
  /\ messages[Len(messages)] = Message("bot", ApologyText)
  /\ recommendedEvents # <<>>
  /\ ~isLoading

\* C3: when GET /api/events fails (fetch rejects, or the status is not OK),
\* fetchEvents changes nothing: events and the rest of the UI state keep
\* their values.
C3_FetchFailureIsNoOp ==
  [][\A i \in 1..Len(getReqs) :
       (GetSettles(i) /\ StatusFailed(getReqs[i].outcome[1])) =>
         UNCHANGED <<events, uiVars, prefVars, messages, recommendedEvents,
                     isLoading, userLocation>>]_vars

\* C4: when POST /api/events fails (fetch rejects, or the status is not
\* OK), handleAddEvent changes nothing: showAddEvent, newEvent and events
\* keep their values and no GET /api/events is issued.
C4_AddFailureIsNoOp ==
  [][\A i \in 1..Len(postReqs) :
       (PostSettles(i) /\ StatusFailed(postReqs[i].outcome[1])) =>
         UNCHANGED <<showAddEvent, newEvent, events, getReqs, eventGets>>]_vars

C4_Witness ==
  /\ eventPosts = 1 /\ postReqs = <<>> /\ okAdds = 0
  /\ showAddEvent
  /\ newEvent # InitialNewEvent

Unique(s) == \A i, j \in 1..Len(s) : s[i] = s[j] => i = j

C5_UniqueAndAddPresent ==
  [][/\ Unique(preferences')
     /\ \A c \in PrefCategories :
          (addPreference(c) /\ Includes(preferences, c)) =>
            preferences' = preferences]_vars

\* C6: every POST /api/events carries latitude and longitude as numbers:
\* the form fields of every submitted request parse as floats.
C6_EventCoordinatesAreNumbers ==
  \A i \in 1..Len(postReqs) :
    /\ postReqs[i].body.latitude.type = "number"
    /\ postReqs[i].body.longitude.type = "number"
    /\ ~parseFloat(postReqs[i].closure.latitude).isNaN
    /\ ~parseFloat(postReqs[i].closure.longitude).isNaN

\* C7: every POST /api/chat body holds message, latitude, longitude and
\* preferences: the entered text, the coordinates, the preferences of the
\* moment of the send.
C7_ChatBodyHasFourFields ==
  \A i \in 1..Len(chatReqs) :
    /\ DOMAIN chatReqs[i].body = {"message", "latitude", "longitude", "preferences"}
    /\ chatReqs[i].body.message = chatReqs[i].closure.userMessage.content
    /\ chatReqs[i].body.preferences = chatReqs[i].closure.preferences

\* C8: after the mount effect has set the welcome message, every step
\* leaves the old messages list as a prefix of the new one.
C8_MessagesAppendOnly ==
  [][mounted => IsPrefix(messages, messages')]_vars

C8_Witness ==
  /\ Len(messages) = 5
  /\ messages[1] = Message("bot", WelcomeText)
  /\ messages[3] = Message("bot", ApologyText)
  /\ chatReqs = <<>>

\* C9: once a chat turn has completed, recommendedEvents is what that turn
\* returned (empty when it returned none or failed).
C9_RecommendedOfLatestTurn ==
  turnReturned # None => recommendedEvents = turnReturned[1]

UserMessages == SelectSeq(messages, LAMBDA m : m.type = "user")

\* C10: the POST /api/chat requests issued are as many as the user
\* messages, the POST /api/events requests as many as the handleAddEvent
\* invocations, the GET /api/events requests one per mount and one per
\* successful add: no request is issued again.
C10_NoRetries ==
  /\ chatPosts = Len(UserMessages)
  /\ eventPosts = addCalls
  /\ eventGets = mounts + okAdds

C10_Witness ==
  /\ chatPosts = 1 /\ chatReqs = <<>>
  /\ messages[Len(messages)] = Message("bot", ApologyText)
  /\ eventGets = 1 /\ getReqs = <<>> /\ events = ArrayBody(<<>>)

\* C11: events is the body of the GET /api/events response that completed
\* last (the initial empty list before any has), whatever the order in
\* which the requests were issued.
C11_EventsOfLastCompletedGet ==
  events = IF getLog = <<>> THEN ArrayBody(<<>>) ELSE getLog[Len(getLog)].body

\* the refetch completed first, the mount fetch after it, with another body
C11_Witness ==
  /\ Len(getLog) = 2
  /\ getLog[1].id = 2 /\ getLog[2].id = 1
  /\ getLog[1].body # getLog[2].body
  /\ events = getLog[2].body
  /\ getReqs = <<>>

\* C12: when POST /api/events returns an OK status, the continuation
\* closes the dialog, sets every form field to its initial value (empty,
\* price 'Free'), issues exactly one GET /api/events and leaves messages,
\* recommendedEvents, preferences and isLoading alone; the step that
\* issues the POST issues no GET.
C12_AddSuccessResetsAndRefetches ==
  [][/\ \A i \in 1..Len(postReqs) :
          (PostSettles(i) /\ ~postReqs[i].outcome[1].rejected
                          /\ postReqs[i].outcome[1].ok) =>
            /\ showAddEvent' = FALSE
            /\ newEvent' = InitialNewEvent
            /\ newEvent'.price = "Free"
            /\ newEvent'.title = ""
            /\ newEvent'.latitude = <<>> /\ newEvent'.longitude = <<>>
            /\ eventGets' = eventGets + 1
            /\ Len(getReqs') = Len(getReqs) + 1
            /\ SubSeq(getReqs', 1, Len(getReqs)) = getReqs
            /\ getReqs'[Len(getReqs')].outcome = None
            /\ UNCHANGED <<messages, recommendedEvents, preferences, isLoading>>
     /\ eventPosts' # eventPosts => UNCHANGED <<eventGets, getReqs>>]_vars

C12_Witness ==
  /\ okAdds = 1 /\ postReqs = <<>>
  /\ ~showAddEvent
  /\ newEvent = InitialNewEvent
  /\ eventGets = 2
  /\ Len(getReqs) = 2 /\ getReqs[2].id = 2

\* C13: at most one POST /api/chat is in flight; isLoading is true exactly
\* while one is; no user message directly follows a user message.
C13_OneChatInFlight ==
  /\ Len(chatReqs) <= 1
  /\ isLoading <=> chatReqs # <<>>
  /\ \A k \in 1..(Len(messages) - 1) :
       messages[k].type = "user" => messages[k + 1].type = "bot"

\* a second send is awaited, after the first has settled
C13_Witness ==
  /\ chatPosts = 2 /\ Len(chatReqs) = 1
  /\ isLoading
  /\ Len(messages) = 4 /\ messages[4].type = "user"

====
